---- MODULE Spec2Model ----
(***************************************************************************)
(* termlog (github.com/cortesi/termlog): one Log shared by several         *)
(* goroutines, its Groups, and the sink (color.Output) they print to.      *)
(*                                                                         *)
(* The methods of termlog.go are actions.  Log.output is split at each     *)
(* access to shared state: taking l.mu (with the len(lines) test), a step  *)
(* per iteration of the range loop (the l.enabled lookup and the timestamp *)
(* Printf when first is set), the line's Printf, and the deferred Unlock.  *)
(* Enable and Quiet take no lock in the source, so they are single steps   *)
(* that may fall between any two steps of another goroutine's output.      *)
(*                                                                         *)
(* A line is its channel name and its colour; format and args are opaque   *)
(* payload that Printf passes through and no branch of the code reads.     *)
(***************************************************************************)
EXTENDS Naturals, Sequences, FiniteSets

\* ---- bounds ----
MaxCalls == 6      \* calls of the package's methods, over all goroutines

Procs == {1, 2}    \* goroutines calling into the Log
Groups == {1, 2}   \* Groups that Log.Group() may create
NoProc == 0
TheLog == 0        \* origin of a direct call, as opposed to a member of Groups
Silenced == 3      \* the Log that FromContext makes when the context has none
NoLogger == 4      \* no Logger: a context without one, FromContext not yet called

\* ---- program constants ----
indent == "  "
\* "" is the channel NewLog enables; "on" is a name a caller may Enable.
Channels == {"", "on"}
\* Of the palette the model uses Timestamp and Say: Notice, Warn and Shout
\* (and their As forms) are Say and SayAs with another palette entry, which
\* output hands to Printf and never reads.
Palette == [Timestamp |-> "FgCyan", Say |-> "Default"]

line(name, color) == [name |-> name, color |-> color]

VARIABLES
    enabled,    \* Log.enabled: the keys of the map
    quiet,      \* Log.quiet
    mu,         \* Log.mu: the goroutine holding it, or NoProc
    group,      \* group structs: lines, quiet; made once Log.Group() returned it;
                \* seen is history: per append, its channel and what held then
    sink,       \* color.Output: the sequence of Printf writes
    pc,         \* where each goroutine is inside Log.output
    frame,      \* Log.output's locals per goroutine: lines, i, first, format
    calls,      \* history: number of method calls made since the initial state
    flushes,    \* history: one record per call of Log.output
    ctx,        \* the value under "termlog" in the context NewContext derived
    got,        \* the last FromContext: the context it was given, its result
    silenced    \* the Log FromContext made on a miss: enabled, quiet

ctxvars == <<ctx, got, silenced>>
vars == <<enabled, quiet, mu, group, sink, pc, frame, calls, flushes, ctxvars>>

NoFrame == [lines |-> <<>>, i |-> 0, first |-> FALSE, format |-> "",
            fid |-> 0, src |-> TheLog]

\* NewLog: enabled[""] = true, quiet is the zero value, the mutex is free.
NewLog ==
    /\ enabled = {""}
    /\ quiet = FALSE
    /\ mu = NoProc

\* context.Background(): no value under "termlog"; FromContext not called.
NoContext ==
    /\ ctx = NoLogger
    /\ got = [on |-> "none", logger |-> NoLogger]
    /\ silenced = [made |-> FALSE, enabled |-> {}, quiet |-> FALSE]

Init ==
    /\ NewLog
    /\ group = [g \in Groups |-> [made |-> FALSE, lines |-> <<>>, quiet |-> FALSE,
                                  seen |-> <<>>]]
    /\ sink = <<>>
    /\ pc = [p \in Procs |-> "idle"]
    /\ frame = [p \in Procs |-> NoFrame]
    /\ calls = 0
    /\ flushes = <<>>
    /\ NoContext

\* A method is called: the goroutine is not inside another call.
Call(p) ==
    /\ pc[p] = "idle"
    /\ calls < MaxCalls
    /\ calls' = calls + 1

\* ---- Log.Enable, Log.Quiet ----
\* Enable as it would be if it flipped the entry of the name.
EnableFlip(p, name) ==
    /\ Call(p)
    /\ enabled' = IF name \in enabled THEN enabled \ {name} ELSE enabled \cup {name}
    /\ UNCHANGED <<quiet, mu, group, sink, pc, frame, flushes, ctxvars>>

\* Enable as it would be if it replaced the map by one holding the name.
EnableOnly(p, name) ==
    /\ Call(p)
    /\ enabled' = {name}
    /\ UNCHANGED <<quiet, mu, group, sink, pc, frame, flushes, ctxvars>>

\* l.enabled[name] = true, with no lock taken.
Enable(p, name) ==
    /\ Call(p)
    /\ enabled' = enabled \cup {name}
    /\ UNCHANGED <<quiet, mu, group, sink, pc, frame, flushes, ctxvars>>

\* Quiet as it would be if it also silenced the Groups already created.
QuietAll(p) ==
    /\ Call(p)
    /\ quiet' = TRUE
    /\ group' = [g \in Groups |-> [group[g] EXCEPT !.quiet = TRUE]]
    /\ UNCHANGED <<enabled, mu, sink, pc, frame, flushes, ctxvars>>

\* l.quiet = true, with no lock taken.
Quiet(p) ==
    /\ Call(p)
    /\ quiet' = TRUE
    /\ UNCHANGED <<enabled, mu, group, sink, pc, frame, flushes, ctxvars>>

\* ---- Log.output ----
\* One Printf to color.Output.  by, src and idx are history: the output call
\* that made the write, the object the call came from, and the index in the
\* call's batch of the line the write was made for.
Write(f, src, i, color, text) ==
    [by |-> f, src |-> src, idx |-> i, color |-> color, text |-> text]

\* The texts Printf receives.
TimeText == "time"
LineText == "format\n"
IndentText == indent \o "format\n"

\* Entry: the arguments are evaluated by the caller; `if quiet { return }`.
\* The record added to flushes is history: what held when the call was made.
output(p, q, lines, src) ==
    /\ Call(p)
    /\ flushes' = Append(flushes,
                         [src |-> src, lines |-> lines,
                          lquiet |-> quiet,
                          gquiet |-> IF src \in Groups THEN group[src].quiet ELSE FALSE,
                          seen |-> IF src \in Groups THEN group[src].seen ELSE <<>>,
                          en |-> enabled])
    /\ IF q
         THEN UNCHANGED <<pc, frame>>
         ELSE /\ pc' = [pc EXCEPT ![p] = "lock"]
              /\ frame' = [frame EXCEPT ![p] = [lines |-> lines, i |-> 1, first |-> TRUE,
                                                format |-> "", fid |-> Len(flushes) + 1,
                                                src |-> src]]
    /\ UNCHANGED <<enabled, quiet, mu, group, sink, ctxvars>>

\* Lock as it would be if the mutex did not exclude a second holder.
LockNoMutex(p) ==
    /\ pc[p] = "lock"
    /\ mu' = p
    /\ pc' = [pc EXCEPT ![p] = IF Len(frame[p].lines) = 0 THEN "unlock" ELSE "range"]
    /\ UNCHANGED <<enabled, quiet, group, sink, frame, calls, flushes, ctxvars>>

\* Lock as it would be if the timestamp were printed ahead of the loop.
LockStamp(p) ==
    /\ pc[p] = "lock"
    /\ mu = NoProc
    /\ mu' = p
    /\ sink' = Append(sink, Write(frame[p].fid, frame[p].src, 0,
                                  Palette.Timestamp, TimeText))
    /\ pc' = [pc EXCEPT ![p] = IF Len(frame[p].lines) = 0 THEN "unlock" ELSE "range"]
    /\ UNCHANGED <<enabled, quiet, group, frame, calls, flushes, ctxvars>>

\* Lock as it would be if the return on an empty batch left the mutex held
\* (an Unlock on the normal path only, not deferred).
LockLeak(p) ==
    /\ pc[p] = "lock"
    /\ mu = NoProc
    /\ mu' = p
    /\ pc' = [pc EXCEPT ![p] = IF Len(frame[p].lines) = 0 THEN "idle" ELSE "range"]
    /\ UNCHANGED <<enabled, quiet, group, sink, frame, calls, flushes, ctxvars>>

\* l.mu.Lock(); defer l.mu.Unlock(); if len(lines) == 0 { return }; first := true
Lock(p) ==
    /\ pc[p] = "lock"
    /\ mu = NoProc
    /\ mu' = p
    /\ pc' = [pc EXCEPT ![p] = IF Len(frame[p].lines) = 0 THEN "unlock" ELSE "range"]
    /\ UNCHANGED <<enabled, quiet, group, sink, frame, calls, flushes, ctxvars>>

\* The lookup as it would be if every name were taken as enabled.
LookupAny(name) == TRUE

\* _, ok := l.enabled[line.name]
Lookup(name) == name \in enabled

\* the range loop is exhausted
RangeEnd(p) ==
    /\ pc[p] = "range"
    /\ frame[p].i > Len(frame[p].lines)
    /\ pc' = [pc EXCEPT ![p] = "unlock"]
    /\ UNCHANGED <<enabled, quiet, mu, group, sink, frame, calls, flushes, ctxvars>>

\* The skip as it would be if the timestamp were printed before the lookup.
RangeSkipStamp(p) ==
    /\ pc[p] = "range"
    /\ frame[p].i <= Len(frame[p].lines)
    /\ ~(frame[p].lines[frame[p].i].name \in enabled)
    /\ sink' = IF frame[p].first
                 THEN Append(sink, Write(frame[p].fid, frame[p].src, frame[p].i,
                                         Palette.Timestamp, TimeText))
                 ELSE sink
    /\ frame' = [frame EXCEPT ![p].i = @ + 1, ![p].first = FALSE]
    /\ UNCHANGED <<enabled, quiet, mu, group, pc, calls, flushes, ctxvars>>

\* if !ok { continue }
RangeSkip(p) ==
    /\ pc[p] = "range"
    /\ frame[p].i <= Len(frame[p].lines)
    /\ ~Lookup(frame[p].lines[frame[p].i].name)
    /\ frame' = [frame EXCEPT ![p].i = @ + 1]
    /\ UNCHANGED <<enabled, quiet, mu, group, sink, pc, calls, flushes, ctxvars>>

\* The first branch as it would be without the timestamp's Printf.
RangeFirstNoStamp(p) ==
    /\ pc[p] = "range"
    /\ frame[p].i <= Len(frame[p].lines)
    /\ frame[p].lines[frame[p].i].name \in enabled
    /\ frame[p].first
    /\ frame' = [frame EXCEPT ![p].first = FALSE, ![p].format = LineText]
    /\ pc' = [pc EXCEPT ![p] = "print"]
    /\ UNCHANGED <<enabled, quiet, mu, group, sink, calls, flushes, ctxvars>>

\* The first branch as it would be without `first = false`.
RangeFirstSticky(p) ==
    /\ pc[p] = "range"
    /\ frame[p].i <= Len(frame[p].lines)
    /\ frame[p].lines[frame[p].i].name \in enabled
    /\ frame[p].first
    /\ sink' = Append(sink, Write(frame[p].fid, frame[p].src, frame[p].i,
                                  Palette.Timestamp, TimeText))
    /\ frame' = [frame EXCEPT ![p].format = LineText]
    /\ pc' = [pc EXCEPT ![p] = "print"]
    /\ UNCHANGED <<enabled, quiet, mu, group, calls, flushes, ctxvars>>

\* if first { Timestamp.Printf(...); first = false; format = line.format + "\n" }
RangeFirst(p) ==
    /\ pc[p] = "range"
    /\ frame[p].i <= Len(frame[p].lines)
    /\ Lookup(frame[p].lines[frame[p].i].name)
    /\ frame[p].first
    /\ sink' = Append(sink, Write(frame[p].fid, frame[p].src, frame[p].i,
                                  Palette.Timestamp, TimeText))
    /\ frame' = [frame EXCEPT ![p].first = FALSE, ![p].format = LineText]
    /\ pc' = [pc EXCEPT ![p] = "print"]
    /\ UNCHANGED <<enabled, quiet, mu, group, calls, flushes, ctxvars>>

\* else { format = indent + line.format + "\n" }
RangeRest(p) ==
    /\ pc[p] = "range"
    /\ frame[p].i <= Len(frame[p].lines)
    /\ Lookup(frame[p].lines[frame[p].i].name)
    /\ ~frame[p].first
    /\ frame' = [frame EXCEPT ![p].format = IndentText]
    /\ pc' = [pc EXCEPT ![p] = "print"]
    /\ UNCHANGED <<enabled, quiet, mu, group, sink, calls, flushes, ctxvars>>

\* line.color.Printf(format, line.args...)
Printf(p) ==
    /\ pc[p] = "print"
    /\ sink' = Append(sink, Write(frame[p].fid, frame[p].src, frame[p].i,
                                  frame[p].lines[frame[p].i].color, frame[p].format))
    /\ frame' = [frame EXCEPT ![p].i = @ + 1]
    /\ pc' = [pc EXCEPT ![p] = "range"]
    /\ UNCHANGED <<enabled, quiet, mu, group, calls, flushes, ctxvars>>

\* the deferred l.mu.Unlock(), and output returns
Unlock(p) ==
    /\ pc[p] = "unlock"
    /\ mu' = NoProc
    /\ pc' = [pc EXCEPT ![p] = "idle"]
    /\ frame' = [frame EXCEPT ![p] = NoFrame]
    /\ UNCHANGED <<enabled, quiet, group, sink, calls, flushes, ctxvars>>

\* ---- the Log's logging methods ----
Say(p) == output(p, quiet, <<line("", Palette.Say)>>, TheLog)
SayAs(p, name) == output(p, quiet, <<line(name, Palette.Say)>>, TheLog)

\* ---- Log.Group and the group's methods ----
\* Groups are handed out lowest number first.
Group(p, g) ==
    /\ Call(p)
    /\ ~group[g].made
    /\ \A h \in Groups : h < g => group[h].made
    /\ group' = [group EXCEPT ![g] = [made |-> TRUE, lines |-> <<>>, quiet |-> quiet,
                                      seen |-> <<>>]]
    /\ UNCHANGED <<enabled, quiet, mu, sink, pc, frame, flushes, ctxvars>>

\* addLine as it would be if it also printed the line at once.
addLineEager(p, g, name, color) ==
    /\ Call(p)
    /\ group[g].made
    /\ group' = [group EXCEPT
                   ![g].lines = Append(@, line(name, color)),
                   ![g].seen = Append(@, [name |-> name, en |-> name \in enabled,
                                          q |-> group[g].quiet])]
    /\ sink' = Append(sink, Write(0, g, Len(group[g].lines) + 1, color, LineText))
    /\ UNCHANGED <<enabled, quiet, mu, pc, frame, flushes, ctxvars>>

\* addLine as it would be if the channel were tested when the line is added.
addLineFiltered(p, g, name, color) ==
    /\ Call(p)
    /\ group[g].made
    /\ group' = [group EXCEPT
                   ![g].lines = IF name \in enabled THEN Append(@, line(name, color)) ELSE @,
                   ![g].seen = Append(@, [name |-> name, en |-> name \in enabled,
                                          q |-> group[g].quiet])]
    /\ UNCHANGED <<enabled, quiet, mu, sink, pc, frame, flushes, ctxvars>>

\* addLine as it would be if the new line were put at the front.
addLineFront(p, g, name, color) ==
    /\ Call(p)
    /\ group[g].made
    /\ group' = [group EXCEPT
                   ![g].lines = <<line(name, color)>> \o @,
                   ![g].seen = Append(@, [name |-> name, en |-> name \in enabled,
                                          q |-> group[g].quiet])]
    /\ UNCHANGED <<enabled, quiet, mu, sink, pc, frame, flushes, ctxvars>>

\* g.lines = append(g.lines, &line{name, color, format, args})
addLine(p, g, name, color) ==
    /\ Call(p)
    /\ group[g].made
    /\ group' = [group EXCEPT
                   ![g].lines = Append(@, line(name, color)),
                   ![g].seen = Append(@, [name |-> name, en |-> name \in enabled,
                                          q |-> group[g].quiet])]
    /\ UNCHANGED <<enabled, quiet, mu, sink, pc, frame, flushes, ctxvars>>

groupSay(p, g) == addLine(p, g, "", Palette.Say)
groupSayAs(p, g, name) == addLine(p, g, name, Palette.Say)

\* Done as it would be if it passed the Logger's quiet flag.
groupDoneLoud(p, g) ==
    /\ group[g].made
    /\ output(p, quiet, group[g].lines, g)

\* g.log.output(g.quiet, g.lines...)
groupDone(p, g) ==
    /\ group[g].made
    /\ output(p, group[g].quiet, group[g].lines, g)

\* The Group's Quiet as it would be if it silenced the Logger as well.
groupQuietLogger(p, g) ==
    /\ Call(p)
    /\ group[g].made
    /\ group' = [group EXCEPT ![g].quiet = TRUE]
    /\ quiet' = TRUE
    /\ UNCHANGED <<enabled, mu, sink, pc, frame, flushes, ctxvars>>

\* g.quiet = true
groupQuiet(p, g) ==
    /\ Call(p)
    /\ group[g].made
    /\ group' = [group EXCEPT ![g].quiet = TRUE]
    /\ UNCHANGED <<enabled, quiet, mu, sink, pc, frame, flushes, ctxvars>>

Next ==
    \E p \in Procs :
        \/ \E name \in Channels : Enable(p, name)
        \/ Quiet(p)
        \/ Say(p)
        \/ \E name \in Channels : SayAs(p, name)
        \/ Lock(p)
        \/ RangeEnd(p)
        \/ RangeSkip(p)
        \/ RangeFirst(p)
        \/ RangeRest(p)
        \/ Printf(p)
        \/ Unlock(p)
        \/ \E g \in Groups :
            \/ Group(p, g)
            \/ groupSay(p, g)
            \/ \E name \in Channels : groupSayAs(p, g, name)
            \/ groupDone(p, g)
            \/ groupQuiet(p, g)

Spec == Init /\ [][Next]_vars

\* One caller making direct calls only: the Logger is never made quiet and
\* no Group is used.
NextOneCaller ==
    \/ \E name \in Channels : Enable(1, name)
    \/ Say(1)
    \/ \E name \in Channels : SayAs(1, name)
    \/ Lock(1)
    \/ RangeEnd(1)
    \/ RangeSkip(1)
    \/ RangeFirst(1)
    \/ Printf(1)
    \/ Unlock(1)

SpecOneCaller == Init /\ [][NextOneCaller]_vars

\* One caller working with two Groups, as TestGroup does: the initial state
\* is the one after l := NewLog(); g1 := l.Group(); g2 := l.Group().
InitGroups ==
    /\ NewLog
    /\ group = [g \in Groups |-> [made |-> TRUE, lines |-> <<>>, quiet |-> quiet,
                                  seen |-> <<>>]]
    /\ sink = <<>>
    /\ pc = [p \in Procs |-> "idle"]
    /\ frame = [p \in Procs |-> NoFrame]
    /\ calls = 0
    /\ flushes = <<>>
    /\ NoContext

NextGroups ==
    \/ \E name \in Channels : Enable(1, name)
    \/ Lock(1)
    \/ RangeEnd(1)
    \/ RangeSkip(1)
    \/ RangeFirst(1)
    \/ RangeRest(1)
    \/ Printf(1)
    \/ Unlock(1)
    \/ \E g \in Groups :
        \/ groupSay(1, g)
        \/ \E name \in Channels : groupSayAs(1, g, name)
        \/ groupDone(1, g)
        \/ groupQuiet(1, g)

SpecGroups == InitGroups /\ [][NextGroups]_vars

\* A goroutine inside output keeps running, and sync.Mutex hands the lock to
\* a goroutine that waits for it once the lock is free.
Fairness ==
    \A p \in Procs :
        /\ WF_vars(Lock(p))
        /\ WF_vars(RangeEnd(p))
        /\ WF_vars(RangeSkip(p))
        /\ WF_vars(RangeFirst(p))
        /\ WF_vars(RangeRest(p))
        /\ WF_vars(Printf(p))
        /\ WF_vars(Unlock(p))

\* Two goroutines, with Groups, through every way out of output: the
\* quiet return, the empty batch, a batch whose lines are all filtered out,
\* and lines written.
NextFair ==
    \E p \in Procs :
        \/ Quiet(p)
        \/ Say(p)
        \/ SayAs(p, "on")
        \/ Lock(p)
        \/ RangeEnd(p)
        \/ RangeSkip(p)
        \/ RangeFirst(p)
        \/ RangeRest(p)
        \/ Printf(p)
        \/ Unlock(p)
        \/ \E g \in Groups :
            \/ Group(p, g)
            \/ groupSay(p, g)
            \/ groupDone(p, g)

SpecFair == Init /\ [][NextFair]_vars /\ Fairness

\* ---- NewContext, FromContext ----
\* n := NewContext(ctx, l): the derived context carries l.
NewContext(p) ==
    /\ Call(p)
    /\ ctx = NoLogger
    /\ ctx' = TheLog
    /\ UNCHANGED <<enabled, quiet, mu, group, sink, pc, frame, flushes, got, silenced>>

\* FromContext as it would be without the l.Quiet() on the new Log.
FromContextLoud(p, c) ==
    /\ Call(p)
    /\ c = "derived" => ctx # NoLogger
    /\ LET value == IF c = "derived" THEN ctx ELSE NoLogger IN
       IF value = NoLogger
         THEN /\ silenced' = [made |-> TRUE, enabled |-> {""}, quiet |-> FALSE]
              /\ got' = [on |-> c, logger |-> Silenced]
         ELSE /\ got' = [on |-> c, logger |-> value]
              /\ UNCHANGED silenced
    /\ UNCHANGED <<enabled, quiet, mu, group, sink, pc, frame, flushes, ctx>>

\* FromContext(c), for c the background context or the derived one:
\* logger, ok := ctx.Value("termlog").(Logger); on a miss NewLog() and Quiet().
FromContext(p, c) ==
    /\ Call(p)
    /\ c = "derived" => ctx # NoLogger
    /\ LET value == IF c = "derived" THEN ctx ELSE NoLogger IN
       IF value = NoLogger
         THEN /\ silenced' = [made |-> TRUE, enabled |-> {""}, quiet |-> TRUE]
              /\ got' = [on |-> c, logger |-> Silenced]
         ELSE /\ got' = [on |-> c, logger |-> value]
              /\ UNCHANGED silenced
    /\ UNCHANGED <<enabled, quiet, mu, group, sink, pc, frame, flushes, ctx>>

\* Say and SayAs on the Logger FromContext returned.  On the Log FromContext
\* made, the quiet argument is that Log's flag; it is set, so output returns
\* before it reaches that Log's mutex and map.
gotSay(p) ==
    /\ got.logger # NoLogger
    /\ IF got.logger = Silenced
         THEN output(p, silenced.quiet, <<line("", Palette.Say)>>, Silenced)
         ELSE Say(p)

gotSayAs(p, name) ==
    /\ got.logger # NoLogger
    /\ IF got.logger = Silenced
         THEN output(p, silenced.quiet, <<line(name, Palette.Say)>>, Silenced)
         ELSE SayAs(p, name)

\* A caller that passes its Log through a context, as TestContext does, with
\* a second goroutine using the Log directly.
NextContext ==
    \E p \in Procs :
        \/ NewContext(p)
        \/ \E c \in {"background", "derived"} : FromContext(p, c)
        \/ gotSay(p)
        \/ \E name \in Channels : gotSayAs(p, name)
        \/ Say(p)
        \/ \E name \in Channels : Enable(p, name)
        \/ Quiet(p)
        \/ Lock(p)
        \/ RangeEnd(p)
        \/ RangeSkip(p)
        \/ RangeFirst(p)
        \/ Printf(p)
        \/ Unlock(p)

SpecContext == Init /\ [][NextContext]_vars

\* ---- what the history says ----
FlushIds == 1..Len(flushes)

\* The quiet argument the call of output f was made with.
QuietArg(f) == IF flushes[f].src \in Groups THEN flushes[f].gquiet ELSE flushes[f].lquiet

\* The call of output f has returned.
Finished(f) == ~\E p \in Procs : pc[p] # "idle" /\ frame[p].fid = f

\* No Enable changed the enabled set since the call f was made.
Stable(f) == flushes[f].en = enabled

\* The writes of call f, in the order they reached the sink.
Writes(f) == SelectSeq(sink, LAMBDA w : w.by = f)

\* The indices, from i on, of the lines on enabled channels.
RECURSIVE Surviving(_, _)
Surviving(lines, i) ==
    IF i > Len(lines) THEN <<>>
    ELSE (IF lines[i].name \in enabled THEN <<i>> ELSE <<>>) \o Surviving(lines, i + 1)

\* A batch in which every line is printed: a timestamp and the first line,
\* then the others indented.  ix lists the indices of the lines printed.
Rendered(f, ix) ==
    IF ix = <<>> THEN <<>>
    ELSE <<Write(f, flushes[f].src, ix[1], Palette.Timestamp, TimeText),
           Write(f, flushes[f].src, ix[1], flushes[f].lines[ix[1]].color, LineText)>>
         \o [k \in 1..(Len(ix) - 1) |->
               Write(f, flushes[f].src, ix[k + 1], flushes[f].lines[ix[k + 1]].color,
                     IndentText)]

\* What call f prints if the lines on channels that are not enabled had
\* never been part of it.
Expected(f) ==
    IF QuietArg(f) THEN <<>> ELSE Rendered(f, Surviving(flushes[f].lines, 1))

\* ---- C1 ----
\* C1: the writes of one call of output (one direct call, one Done) are
\* contiguous in the sink: between two writes of the same call there is no
\* write of another call.
C1_FlushContiguous ==
    \A i, j \in 1..Len(sink) :
        (i < j /\ sink[i].by = sink[j].by) =>
            \A k \in i..j : sink[k].by = sink[i].by

\* One goroutine is in the middle of its writes, holding the lock, while
\* another has called output and waits for the lock, after an earlier call
\* has already printed.
C1_Witness ==
    \E p, q \in Procs :
        /\ p # q
        /\ pc[p] = "print"
        /\ pc[q] = "lock"
        /\ Len(frame[q].lines) > 0
        /\ \E k \in 1..Len(sink) : sink[k].by = frame[p].fid

\* ---- C2 ----
\* C2: a line on a channel that is not enabled is never written, and a call
\* prints what it would print without its lines on such channels (for a
\* direct call on such a channel: nothing), whatever the other calls do.
C2_DisabledDropped ==
    /\ \A k \in 1..Len(sink) :
          /\ sink[k].by \in FlushIds
          /\ sink[k].idx \in 1..Len(flushes[sink[k].by].lines)
          /\ flushes[sink[k].by].lines[sink[k].idx].name \in enabled
    /\ \A f \in FlushIds : (Finished(f) /\ Stable(f)) => Writes(f) = Expected(f)

\* A finished Done whose batch has a line on a channel that is not enabled
\* and a line that was printed, and a finished direct call on such a channel.
C2_Witness ==
    /\ \E f \in FlushIds :
          /\ Finished(f) /\ Stable(f) /\ ~QuietArg(f)
          /\ flushes[f].src \in Groups
          /\ \E i \in 1..Len(flushes[f].lines) : flushes[f].lines[i].name \notin enabled
          /\ Writes(f) # <<>>
    /\ \E f \in FlushIds :
          /\ Finished(f) /\ ~QuietArg(f)
          /\ flushes[f].src = TheLog
          /\ flushes[f].lines[1].name \notin enabled

\* ---- C3 ----
\* What a sequence of direct calls prints: per call, in call order, a
\* timestamp and the line if the channel was enabled when the call was made.
RECURSIVE DirectExpected(_)
DirectExpected(f) ==
    IF f > Len(flushes) THEN <<>>
    ELSE (IF flushes[f].lines[1].name \in flushes[f].en
            THEN <<Write(f, TheLog, 1, Palette.Timestamp, TimeText),
                   Write(f, TheLog, 1, flushes[f].lines[1].color, LineText)>>
            ELSE <<>>)
         \o DirectExpected(f + 1)

\* C3: with one caller making direct calls on a Logger that is not quiet,
\* once the calls have returned the sink holds, in call order, a timestamp
\* and one line for each call whose channel was enabled when it was made,
\* and nothing for the other calls.
C3_DirectSequence ==
    (pc[1] = "idle" /\ ~quiet) => sink = DirectExpected(1)

\* Three calls have returned, one of them on a channel that was not enabled,
\* and two lines were printed, one of them on a named channel.
C3_Witness ==
    /\ pc[1] = "idle"
    /\ Len(flushes) >= 3
    /\ \E f \in FlushIds : flushes[f].lines[1].name \notin flushes[f].en
    /\ \E f \in FlushIds : flushes[f].lines[1].name # ""
                             /\ flushes[f].lines[1].name \in flushes[f].en
    /\ Len(sink) >= 4

\* ---- C4 ----
\* C4: nothing logged into a Group reaches the sink before that Group's Done
\* is called: every write that comes from a Group was made after a Done of
\* that Group.
C4_GroupBuffers ==
    \A k \in 1..Len(sink) :
        sink[k].src \in Groups =>
            \E f \in FlushIds : flushes[f].src = sink[k].src

\* A Group holds two lines, the first on an enabled channel, its Done has not
\* been called, and the sink has received other output meanwhile.
C4_Witness ==
    \E g \in Groups :
        /\ group[g].made
        /\ Len(group[g].lines) >= 2
        /\ group[g].lines[1].name \in enabled
        /\ ~\E f \in FlushIds : flushes[f].src = g
        /\ sink # <<>>
\* The write of line i of call f is in the sink.
Printed(f, i) ==
    \E k \in 1..Len(sink) :
        sink[k].by = f /\ sink[k].idx = i /\ sink[k].text \in {LineText, IndentText}

\* ---- C5 ----
\* C5: the channel of a Group's line is tested when Done runs, not when the
\* line is added: a Done of a Group that is not quiet prints every line that
\* was added to the Group on a channel enabled by the time Done was called,
\* also when the channel was not enabled when the line was added.
C5_EnabledAtDone ==
    \A f \in FlushIds :
        (Finished(f) /\ flushes[f].src \in Groups /\ ~flushes[f].gquiet) =>
            \A i \in 1..Len(flushes[f].seen) :
                flushes[f].seen[i].name \in flushes[f].en =>
                    /\ i <= Len(flushes[f].lines)
                    /\ flushes[f].lines[i].name = flushes[f].seen[i].name
                    /\ Printed(f, i)

\* A Done has printed a line whose channel was not enabled when the line was
\* added and was enabled before Done was called.
C5_Witness ==
    \E f \in FlushIds :
        /\ Finished(f) /\ flushes[f].src \in Groups /\ ~flushes[f].gquiet
        /\ \E i \in 1..Len(flushes[f].seen) :
              /\ ~flushes[f].seen[i].en
              /\ flushes[f].seen[i].name \in flushes[f].en
              /\ Printed(f, i)

\* ---- C6 ----
\* C6: the writes of a call are a timestamp, then the first surviving line
\* without indent, then every later surviving line indented, the lines in
\* batch order; so a call that prints a line prints exactly one timestamp,
\* and prints it for the first line it prints.
C6_OneTimestamp ==
    \A f \in FlushIds :
        LET W == Writes(f) IN
        W # <<>> =>
            /\ W[1].text = TimeText /\ W[1].color = Palette.Timestamp
            /\ (Finished(f) => Len(W) >= 2)
            /\ Len(W) >= 2 => (W[2].text = LineText /\ W[2].idx = W[1].idx)
            /\ \A k \in 3..Len(W) : W[k].text = IndentText /\ W[k].idx > W[k - 1].idx

\* A Done has returned whose first line was filtered out and whose second
\* and third lines were printed.
C6_Witness ==
    \E f \in FlushIds :
        /\ Finished(f)
        /\ Len(flushes[f].lines) = 3
        /\ Len(Writes(f)) = 3
        /\ Writes(f)[1].idx = 2
        /\ Writes(f)[3].idx = 3

\* ---- C7 ----
\* C7: a call whose lines are all on channels that are not enabled writes
\* nothing, not even a timestamp.
C7_AllFiltered ==
    \A f \in FlushIds :
        (/\ Len(flushes[f].lines) > 0
         /\ \A i \in 1..Len(flushes[f].lines) : flushes[f].lines[i].name \notin enabled)
            => Writes(f) = <<>>

\* A Done of a Group that is not quiet has gone through its two lines, both
\* on a channel that is not enabled, and has returned; so has such a direct
\* call.
C7_Witness ==
    /\ \E f \in FlushIds :
          /\ Finished(f) /\ ~QuietArg(f) /\ flushes[f].src \in Groups
          /\ Len(flushes[f].lines) >= 2
          /\ \A i \in 1..Len(flushes[f].lines) : flushes[f].lines[i].name \notin enabled
    /\ \E f \in FlushIds :
          /\ Finished(f) /\ ~QuietArg(f) /\ flushes[f].src = TheLog
          /\ flushes[f].lines[1].name \notin enabled

\* ---- C8 ----
\* C8: a Done of a Group with no lines writes nothing, and the calls made
\* after it print what they print without it.
C8_EmptyDone ==
    \A f \in FlushIds :
        (flushes[f].src \in Groups /\ flushes[f].lines = <<>>) =>
            /\ Writes(f) = <<>>
            /\ \A h \in FlushIds :
                  (h > f /\ Finished(h) /\ Stable(h)) => Writes(h) = Expected(h)

\* A Done of an empty Group that is not quiet has returned, and a call made
\* after it has printed.
C8_Witness ==
    \E f, h \in FlushIds :
        /\ flushes[f].src \in Groups /\ flushes[f].lines = <<>> /\ ~QuietArg(f)
        /\ Finished(f)
        /\ h > f /\ Finished(h) /\ Writes(h) # <<>>

\* ---- C9 ----
\* C9: a Done of a Group on which Quiet was called writes nothing, whatever
\* the Group holds.
C9_QuietGroup ==
    \A f \in FlushIds :
        (flushes[f].src \in Groups /\ flushes[f].gquiet) => Writes(f) = <<>>

\* Done was called on a Group that was created not quiet and holds a line
\* added before its Quiet and a line added after it, on enabled channels,
\* while the Logger is not quiet.
C9_Witness ==
    \E f \in FlushIds :
        /\ flushes[f].src \in Groups /\ flushes[f].gquiet /\ ~flushes[f].lquiet
        /\ \E i, j \in 1..Len(flushes[f].seen) :
              /\ ~flushes[f].seen[i].q /\ flushes[f].seen[j].q
              /\ flushes[f].lines[i].name \in enabled
              /\ flushes[f].lines[j].name \in enabled

\* ---- C10 ----
\* C10: a call of output made after Log.Quiet (a direct call or the Done of
\* any Group of the Logger) writes nothing.
C10_QuietLogger ==
    \A f \in FlushIds : flushes[f].lquiet => Writes(f) = <<>>

\* ---- C11 ----
\* C11: Log.Group() copies the Logger's quiet flag into the new Group, and
\* the copy is the Group's own afterwards: a step that sets the Logger's
\* quiet flag leaves the flag of every existing Group as it was, and the
\* flag of an existing Group only ever changes to true, in a step that
\* changes nothing else of the Groups or of the Logger (the Group's Quiet).
C11_QuietCopied ==
    [][\A g \in Groups :
          /\ (~group[g].made /\ group'[g].made) => group'[g].quiet = quiet
          /\ (group[g].made /\ quiet' # quiet) => group'[g].quiet = group[g].quiet
          /\ (group[g].made /\ group'[g].quiet # group[g].quiet) =>
                /\ group'[g].quiet
                /\ quiet' = quiet
                /\ \A h \in Groups \ {g} : group'[h] = group[h]]_vars

\* After three calls (Group, Quiet, Group, in that order) the first Group is
\* not quiet, the Logger is, and the second Group is.
C11_Witness ==
    /\ calls = 3
    /\ quiet
    /\ group[1].made /\ ~group[1].quiet
    /\ group[2].made /\ group[2].quiet

\* ---- C12 ----
\* C12: once Done has been called on a Group, a later Done on the same Group
\* writes nothing.
C12_SecondDoneSilent ==
    \A f, h \in FlushIds :
        (f < h /\ flushes[f].src \in Groups /\ flushes[h].src = flushes[f].src) =>
            Writes(h) = <<>>

\* ---- C13 ----
\* The indices, from i on, of the lines on the channels in en.
RECURSIVE SurvivingIn(_, _, _)
SurvivingIn(lines, i, en) ==
    IF i > Len(lines) THEN <<>>
    ELSE (IF lines[i].name \in en THEN <<i>> ELSE <<>>) \o SurvivingIn(lines, i + 1, en)

\* The blocks of the calls f, f + 1, ... in the order the calls were made:
\* per call that was not quiet, its lines on the channels enabled then.
RECURSIVE Blocks(_)
Blocks(f) ==
    IF f > Len(flushes) THEN <<>>
    ELSE (IF QuietArg(f) THEN <<>>
          ELSE Rendered(f, SurvivingIn(flushes[f].lines, 1, flushes[f].en)))
         \o Blocks(f + 1)

\* C13: with one caller appending to several Groups in any interleaving, the
\* sink holds one block per Done, in the order the Dones were called, and a
\* block holds the Group's surviving lines in the order they were appended.
C13_BlocksInDoneOrder ==
    /\ \A f \in FlushIds :
          /\ Len(flushes[f].lines) = Len(flushes[f].seen)
          /\ \A i \in 1..Len(flushes[f].lines) :
                flushes[f].lines[i].name = flushes[f].seen[i].name
    /\ pc[1] = "idle" => sink = Blocks(1)

\* Done was called on the second Group and then on the first; the first
\* holds three lines of which the second is filtered out, the second Group
\* holds one line, and both blocks are in the sink.
C13_Witness ==
    /\ pc[1] = "idle"
    /\ Len(flushes) = 2
    /\ flushes[1].src = 2 /\ flushes[2].src = 1
    /\ Len(flushes[1].lines) = 1
    /\ Len(flushes[2].lines) = 3
    /\ Len(Writes(1)) = 2
    /\ Len(Writes(2)) = 3
    /\ Writes(2)[3].idx = 3

\* ---- C14 ----
\* C14: the enabled set and the quiet flag are written only under the
\* Logger's lock: no step changes either of them while another goroutine is
\* inside the locked part of output, where the enabled set is read.
C14_WritesUnderLock ==
    [][(enabled' # enabled \/ quiet' # quiet) =>
          \A p \in Procs : ~(mu = p /\ pc[p] \in {"range", "print", "unlock"})]_vars

\* ---- C15 ----
\* C15: Enable is idempotent: Enable(name) for a name that is already
\* enabled leaves the enabled set, and everything else an emission reads or
\* writes, as it was.
C15_EnableIdempotent ==
    [][\A p \in Procs, name \in Channels :
          (Enable(p, name) /\ name \in enabled) =>
              UNCHANGED <<enabled, quiet, mu, group, sink, pc, frame, flushes>>]_vars

\* Three calls were made, all of them Enable, so that a name was enabled
\* that was enabled already; "on" is enabled.
C15_Witness ==
    /\ calls = 3
    /\ enabled = {"", "on"}
    /\ ~quiet
    /\ flushes = <<>>
    /\ \A g \in Groups : ~group[g].made

\* ---- C18 ----
\* C18: the empty-string channel is enabled in every state, no step removes
\* a name from the enabled set, and Enable(name) leaves name enabled.
C18_EnabledGrows ==
    [][/\ "" \in enabled /\ "" \in enabled'
       /\ enabled \subseteq enabled'
       /\ \A p \in Procs, name \in Channels : Enable(p, name) => name \in enabled']_vars

\* "on" was enabled before the first of two emissions was made and is
\* enabled still, after a second Enable.
C18_Witness ==
    /\ Len(flushes) >= 2
    /\ "on" \in flushes[1].en
    /\ flushes[2].en = {"", "on"}
    /\ enabled = {"", "on"}
    /\ calls >= 4

\* ---- C19 ----
\* C19: the operations of a Group change only that Group: an append
\* (addLine) changes its buffer and nothing else, its Quiet changes its
\* quiet flag and nothing else; the Logger's quiet flag and enabled set,
\* the sink and the other Groups stay as they were.
C19_GroupFrame ==
    [][\A p \in Procs, g \in Groups :
          /\ (\E name \in Channels : addLine(p, g, name, Palette.Say)) =>
                /\ UNCHANGED <<quiet, enabled, sink, mu>>
                /\ group'[g].quiet = group[g].quiet
                /\ \A h \in Groups \ {g} : group'[h] = group[h]
          /\ groupQuiet(p, g) =>
                /\ UNCHANGED <<quiet, enabled, sink, mu>>
                /\ group'[g].lines = group[g].lines
                /\ \A h \in Groups \ {g} : group'[h] = group[h]]_vars

\* The first Group holds a line and was made quiet by its own Quiet; the
\* Logger and the second Group are not quiet, the second Group is empty and
\* the sink holds the output of an earlier call.
C19_Witness ==
    /\ group[1].made /\ group[1].quiet /\ Len(group[1].lines) >= 1
    /\ group[2].made /\ ~group[2].quiet /\ group[2].lines = <<>>
    /\ ~quiet
    /\ sink # <<>>

\* ---- C17 ----
\* C17: under fair scheduling every call of output returns, and the lock is
\* free whenever no goroutine is inside the locked part of output.
C17_Returns ==
    /\ []((\A p \in Procs : pc[p] \in {"idle", "lock"}) => mu = NoProc)
    /\ \A p \in Procs : (pc[p] # "idle") ~> (pc[p] = "idle")

\* A goroutine waits for the lock while another, whose batch was empty, is
\* about to release it, after an earlier call has printed.
C17_Witness ==
    \E p, q \in Procs :
        /\ pc[p] = "lock"
        /\ mu = q
        /\ pc[q] = "unlock"
        /\ frame[q].lines = <<>>
        /\ sink # <<>>

\* ---- C16 ----
\* C16: FromContext on a context without a logger returns a Log that is
\* quiet, and no call through that Log writes to the sink; FromContext on
\* the context NewContext(ctx, l) made returns l.
C16_FromContext ==
    /\ got.on = "background" => (got.logger = Silenced /\ silenced.quiet)
    /\ got.on = "derived" => got.logger = TheLog
    /\ silenced.made => silenced.quiet
    /\ \A k \in 1..Len(sink) : sink[k].src # Silenced

\* FromContext on the background context returned a new Log and a call
\* through it has returned; the Log l, which is not quiet, has printed; and
\* FromContext on the derived context has then returned l.
C16_Witness ==
    /\ silenced.made
    /\ \E f \in FlushIds : flushes[f].src = Silenced
    /\ ~quiet /\ sink # <<>>
    /\ got.on = "derived" /\ got.logger = TheLog
====
